---- MODULE Spec2Model ----
(***************************************************************************)
(* Model of Article_Summarizer.py: the Streamlit script main() that is     *)
(* re-run from the top on every user interaction, and the three helper     *)
(* functions it calls.  Strings are sequences of one-character strings.    *)
(* The third-party libraries (newspaper, sumy, transformers, nltk) are the *)
(* environment: every call into them either raises or returns a value      *)
(* drawn from a bounded set.                                               *)
(***************************************************************************)
EXTENDS Integers, Sequences, FiniteSets, TLC

VARIABLES
    input_method,   \* value of the radio "Input method:"
    pasted,         \* value of the text area "Paste your article text here:"
    url,            \* value of the text input "Enter article URL:"
    summary_type,   \* value of the selectbox "Summary type:"
    length,         \* value of the slider "Summary length:"
    event,          \* the interaction that triggered the latest run
    before,         \* the shell state that interaction started from
    render,         \* what the latest run of main rendered and called
    direct          \* a direct call of sumy_summarizer: arguments and result

vars == <<input_method, pasted, url, summary_type, length, event, before,
          render, direct>>

----------------------------------------------------------------------------
(* Bounds of the model *)

\* most words in a text: pasted, fetched, or returned as a summary
MaxWords == 2
\* most blanks in a text of blanks only
MaxBlanks == 1

\* k blanks
blanks(k) == [i \in 1..k |-> " "]

\* k one-letter words, one blank between two of them
words(k) == [i \in 1..(2 * k - 1) |-> IF i % 2 = 1 THEN "a" ELSE " "]

\* the texts of the model: the empty text, texts of blanks, texts of words
Texts == {blanks(k) : k \in 0..MaxBlanks} \cup {words(k) : k \in 1..MaxWords}

Urls == {<<>>, <<"a">>}

----------------------------------------------------------------------------
(* Python string operations used by main *)

UpperCase == <<"A","B","C","D","E","F","G","H","I","J","K","L","M",
               "N","O","P","Q","R","S","T","U","V","W","X","Y","Z">>

LowerCase == <<"a","b","c","d","e","f","g","h","i","j","k","l","m",
               "n","o","p","q","r","s","t","u","v","w","x","y","z">>

lower_char(c) ==
    IF \E i \in 1..Len(UpperCase) : UpperCase[i] = c
    THEN LowerCase[CHOOSE i \in 1..Len(UpperCase) : UpperCase[i] = c]
    ELSE c

\* str.lower()
lower(s) == [i \in 1..Len(s) |-> lower_char(s[i])]

\* sub in s
contains(sub, s) ==
    \E i \in 1..(Len(s) - Len(sub) + 1) : SubSeq(s, i, i + Len(sub) - 1) = sub

\* s.split(sep) for a one-character sep: the list of pieces
RECURSIVE split(_, _)
split(s, sep) ==
    IF \A i \in 1..Len(s) : s[i] # sep
    THEN <<s>>
    ELSE LET i == CHOOSE j \in 1..Len(s) :
                     s[j] = sep /\ \A k \in 1..(j - 1) : s[k] # sep
         IN  <<SubSeq(s, 1, i - 1)>> \o split(SubSeq(s, i + 1, Len(s)), sep)

\* nltk word_tokenize on the model's alphabet: the maximal runs of
\* non-blank characters
RECURSIVE word_tokenize(_)
word_tokenize(t) ==
    IF t = <<>> THEN <<>>
    ELSE IF Head(t) = " " THEN word_tokenize(Tail(t))
    ELSE LET n == CHOOSE j \in 1..Len(t) :
                      /\ \A k \in 1..j : t[k] # " "
                      /\ (j = Len(t) \/ t[j + 1] = " ")
         IN  <<SubSeq(t, 1, n)>> \o word_tokenize(SubSeq(t, n + 1, Len(t)))

----------------------------------------------------------------------------
(* The labels of the form *)

Extractive == <<"E","x","t","r","a","c","t","i","v","e">>

OptLSA == Extractive \o <<" ","(","L","S","A",")">>

OptLexRank == Extractive \o <<" ","(","L","e","x","R","a","n","k",")">>

OptLuhn == Extractive \o <<" ","(","L","u","h","n",")">>

OptTextRank == Extractive \o <<" ","(","T","e","x","t","R","a","n","k",")">>

OptBART == <<"A","b","s","t","r","a","c","t","i","v","e",
             " ","(","B","A","R","T",")">>

\* the options of the summary-type selectbox, in order
SummaryTypes == <<OptLSA, OptLexRank, OptLuhn, OptTextRank, OptBART>>

InputMethods == <<"Text", "URL">>

slider_min == 1

slider_max == 10

slider_value == 5

Lengths == slider_min..slider_max

\* the tags sumy_summarizer compares summarizer_type with
tag_lsa == <<"l","s","a">>

tag_lex == <<"l","e","x">>

tag_luhn == <<"l","u","h","n">>

tag_textrank == <<"t","e","x","t","r","a","n","k">>

----------------------------------------------------------------------------
(* Outcomes of the calls into the libraries *)

\* Article(url).download() / .parse(): raises, or yields the body text
FetchOutcomes ==
    {[ok |-> FALSE, text |-> <<>>]} \cup {[ok |-> TRUE, text |-> t] : t \in Texts}

\* a summarizer library: raises while it is set up (parser, model load),
\* raises while it runs, or returns a summary
LibOutcomes ==
    {[fail |-> f, value |-> <<>>] : f \in {"setup", "run"}}
        \cup {[fail |-> "none", value |-> t] : t \in Texts}

NoFetch == [ok |-> FALSE, text |-> <<>>]

NoLib == [fail |-> "setup", value |-> <<>>]

Raise(e) == [raised |-> <<e>>, value |-> <<>>]

Return(v) == [raised |-> <<>>, value |-> v]

----------------------------------------------------------------------------
(* The summarization functions *)

\* summarizer_for with a final else that falls back to LSA
summarizer_for_default(summarizer_type) ==
    IF summarizer_type = <<"l","e","x">> THEN <<"LexRankSummarizer">>
    ELSE IF summarizer_type = <<"l","u","h","n">> THEN <<"LuhnSummarizer">>
    ELSE IF summarizer_type = <<"t","e","x","t","r","a","n","k">>
    THEN <<"TextRankSummarizer">>
    ELSE <<"LsaSummarizer">>

\* the if/elif chain: the summarizer class bound to the local variable, or
\* <<>> when no branch binds it
summarizer_for(summarizer_type) ==
    IF summarizer_type = tag_lsa THEN <<"LsaSummarizer">>
    ELSE IF summarizer_type = tag_lex THEN <<"LexRankSummarizer">>
    ELSE IF summarizer_type = tag_luhn THEN <<"LuhnSummarizer">>
    ELSE IF summarizer_type = tag_textrank THEN <<"TextRankSummarizer">>
    ELSE <<>>

\* the result also tells which summarizer object the call reached
sumy_summarizer(text, summarizer_type, sentences_count, lib) ==
    LET summarizer == summarizer_for(summarizer_type)
        out == IF lib.fail = "setup" THEN Raise("LibraryError")
               ELSE IF summarizer = <<>> THEN Raise("UnboundLocalError")
               ELSE IF lib.fail = "run" THEN Raise("LibraryError")
               ELSE Return(lib.value)
    IN  [raised |-> out.raised, value |-> out.value, summarizer |-> summarizer]

min_length_default == 30

\* the result also tells the length bounds the call hands to the model
abstractive_summarizer(text, max_length, min_length, lib) ==
    LET out == IF lib.fail # "none" THEN Raise("LibraryError")
               ELSE Return(lib.value)
    IN  [raised |-> out.raised, value |-> out.value,
         max_length |-> max_length, min_length |-> min_length]

get_article_text(u, fetch) ==
    IF fetch.ok THEN Return(fetch.text) ELSE Raise("ArticleException")

----------------------------------------------------------------------------
(* main(): one run of the script *)

\* f"Error: {str(e)}"
error_message(e) == <<"Error: ", e>>

\* except Exception as e: st.error(...) of the fetch
fetch_except(e) == [error |-> <<error_message(e)>>, escaped |-> <<>>]

\* a handler of the generation that re-raises instead of rendering
generate_except_reraise(e) == [error |-> <<>>, escaped |-> <<e>>]

\* except Exception as e: st.error(...) of the generation
generate_except(e) == [error |-> <<error_message(e)>>, escaped |-> <<>>]

NoHandler == [error |-> <<>>, escaped |-> <<>>]

\* acquire with a failed fetch falling back to the URL string as the text
acquire_fallback(im, p, u, fetch) ==
    IF im = "Text"
    THEN [text |-> p, extracted |-> <<>>, raised |-> <<>>, handled |-> NoHandler]
    ELSE IF u = <<>>
    THEN [text |-> <<>>, extracted |-> <<>>, raised |-> <<>>, handled |-> NoHandler]
    ELSE IF ~fetch.ok
    THEN [text |-> u, extracted |-> <<>>, raised |-> <<"ArticleException">>,
          handled |-> fetch_except("ArticleException")]
    ELSE [text |-> fetch.text, extracted |-> <<fetch.text>>,
          raised |-> <<>>, handled |-> NoHandler]

\* the input section: the local variable text, and what it renders
acquire(im, p, u, fetch) ==
    IF im = "Text"
    THEN [text |-> p, extracted |-> <<>>, raised |-> <<>>, handled |-> NoHandler]
    ELSE IF u = <<>>
    THEN [text |-> <<>>, extracted |-> <<>>, raised |-> <<>>, handled |-> NoHandler]
    ELSE LET got == get_article_text(u, fetch) IN
         IF got.raised # <<>>
         THEN [text |-> <<>>, extracted |-> <<>>, raised |-> got.raised,
               handled |-> fetch_except(got.raised[1])]
         ELSE [text |-> got.value, extracted |-> <<got.value>>,
               raised |-> <<>>, handled |-> NoHandler]

\* the options offered without the test of text
options_offered_always(text) == TRUE

\* if text:
options_offered(text) == text # <<>>

\* a trigger that stays set once pressed, like a checkbox
button_sticky(ev) == TRUE

\* st.button: True only in the run its click triggers
button(ev) == ev = "generate"

\* summary_type.split("(")[1].split(")")[0].lower()
method_of(st) == lower(split(split(st, "(")[2], ")")[1])

\* the length handed on without the factor 30
max_length_unscaled(ln) == ln

\* max_length=length * 30
max_length_of(ln) == ln * 30

\* the share kept instead of the share removed
ratio_kept(orig_words, summ_words) ==
    [num |-> summ_words * 100, den |-> orig_words]

\* (orig_words - summ_words) / orig_words * 100, as an exact fraction
ratio(orig_words, summ_words) ==
    [num |-> (orig_words - summ_words) * 100, den |-> orig_words]

NoGeneration ==
    [returned |-> <<>>, header |-> <<>>, summary |-> <<>>, stats |-> <<>>,
     raised |-> <<>>,
     handled |-> NoHandler, sumy_calls |-> <<>>, abstractive_calls |-> <<>>]

\* the body of "if st.button(...)": the try block and its handler
generate(text, st, ln, lib, tok_ok) ==
    LET extractive == contains(Extractive, st)
        method == method_of(st)
        res == IF extractive
               THEN sumy_summarizer(text, method, ln, lib)
               ELSE abstractive_summarizer(text, max_length_of(ln),
                                           min_length_default, lib)
        sc == IF extractive
              THEN <<[summarizer_type |-> method, sentences_count |-> ln,
                      summarizer |-> res.summarizer]>>
              ELSE <<>>
        ac == IF extractive THEN <<>>
              ELSE <<[max_length |-> res.max_length,
                      min_length |-> res.min_length]>>
        hd == IF extractive THEN <<"Extractive Summary">>
              ELSE <<"Abstractive Summary">>
        orig_words == Len(word_tokenize(text))
        summ_words == Len(word_tokenize(res.value))
        shown == [NoGeneration EXCEPT !.sumy_calls = sc, !.abstractive_calls = ac]
    IN
    IF res.raised # <<>>
    THEN [shown EXCEPT !.raised = res.raised,
                       !.handled = generate_except(res.raised[1])]
    ELSE LET written == [shown EXCEPT !.returned = <<res.value>>, !.header = hd,
                                      !.summary = <<res.value>>] IN
         IF ~tok_ok
         THEN [written EXCEPT !.raised = <<"LookupError">>,
                              !.handled = generate_except("LookupError")]
         ELSE IF orig_words = 0
         THEN [written EXCEPT !.raised = <<"ZeroDivisionError">>,
                              !.handled = generate_except("ZeroDivisionError")]
         ELSE [written EXCEPT !.stats =
                   <<[orig_words |-> orig_words, summ_words |-> summ_words,
                      ratio |-> ratio(orig_words, summ_words)]>>]

\* everything one run of main renders and calls
main(im, p, u, st, ln, ev, fetch, lib, tok_ok) ==
    LET a == acquire(im, p, u, fetch)
        reached == a.handled.escaped = <<>>
        opts == reached /\ options_offered(a.text)
        g == IF opts /\ button(ev) THEN generate(a.text, st, ln, lib, tok_ok)
             ELSE NoGeneration
    IN  [text |-> a.text,
         extracted |-> a.extracted,
         fetch_raised |-> a.raised,
         fetch_error |-> a.handled.error,
         options |-> opts,
         clicked |-> opts /\ button(ev),
         returned |-> g.returned,
         header |-> g.header,
         summary |-> g.summary,
         stats |-> g.stats,
         gen_raised |-> g.raised,
         gen_error |-> g.handled.error,
         sumy_calls |-> g.sumy_calls,
         abstractive_calls |-> g.abstractive_calls,
         escaped |-> a.handled.escaped \o g.handled.escaped]

\* the state of the interaction shell that a rendered page shows
shell_of(r) ==
    IF r.escaped # <<>> THEN "Crashed"
    ELSE IF r.fetch_error # <<>> \/ r.gen_error # <<>> THEN "ErrorDisplayed"
    ELSE IF r.summary # <<>> THEN "SummaryDisplayed"
    ELSE IF r.text # <<>> THEN "InputProvided"
    ELSE "AwaitingInput"

shell == shell_of(render)

----------------------------------------------------------------------------
(* The session: widget values held by the framework between runs *)

Idle == [pc |-> "idle", text |-> <<>>, summarizer_type |-> <<>>,
         sentences_count |-> slider_value, lib |-> NoLib, result |-> <<>>]

Init ==
    /\ input_method = InputMethods[1]
    /\ pasted = <<>>
    /\ url = <<>>
    /\ summary_type = SummaryTypes[1]
    /\ length = slider_value
    /\ event = "start"
    /\ before = "start"
    /\ render = main(InputMethods[1], <<>>, <<>>, SummaryTypes[1], slider_value,
                     "start", NoFetch, NoLib, TRUE)
    /\ direct = Idle

\* the library outcomes a run can meet: only the calls it makes are drawn
FetchesOf(im, u) == IF im = "URL" /\ u # <<>> THEN FetchOutcomes ELSE {NoFetch}

LibsOf(ev) == IF ev = "generate" THEN LibOutcomes ELSE {NoLib}

ToksOf(ev, lib) ==
    IF ev = "generate" /\ lib.fail = "none" THEN BOOLEAN ELSE {TRUE}

\* one interaction: the widget values change, the script runs from the top,
\* and a widget the run does not render loses its value
Rerun(ev, im, p, u, st, ln) ==
    \E fetch \in FetchesOf(im, u), lib \in LibsOf(ev) :
      \E tok_ok \in ToksOf(ev, lib) :
        \E r \in {main(im, p, u, st, ln, ev, fetch, lib, tok_ok)} :
        /\ event' = ev
        /\ before' = shell
        /\ input_method' = im
        /\ pasted' = IF im = "Text" THEN p ELSE <<>>
        /\ url' = IF im = "URL" THEN u ELSE <<>>
        /\ summary_type' = IF r.options THEN st ELSE SummaryTypes[1]
        /\ length' = IF r.options THEN ln ELSE slider_value
        /\ render' = r
        /\ UNCHANGED direct

SelectInputMethod ==
    \E i \in 1..Len(InputMethods) :
        /\ InputMethods[i] # input_method
        /\ Rerun("radio", InputMethods[i], pasted, url, summary_type, length)

EditText ==
    /\ input_method = "Text"
    /\ \E t \in Texts \ {pasted} :
           Rerun("text_area", input_method, t, url, summary_type, length)

EditUrl ==
    /\ input_method = "URL"
    /\ \E u \in Urls \ {url} :
           Rerun("text_input", input_method, pasted, u, summary_type, length)

EditExtracted ==
    /\ render.extracted # <<>>
    /\ Rerun("extracted", input_method, pasted, url, summary_type, length)

SelectSummaryType ==
    /\ render.options
    /\ \E i \in 1..Len(SummaryTypes) :
           /\ SummaryTypes[i] # summary_type
           /\ Rerun("selectbox", input_method, pasted, url, SummaryTypes[i], length)

SlideLength ==
    /\ render.options
    /\ \E n \in Lengths \ {length} :
           Rerun("slider", input_method, pasted, url, summary_type, n)

ClickGenerate ==
    /\ render.options
    /\ Rerun("generate", input_method, pasted, url, summary_type, length)

Next ==
    \/ SelectInputMethod
    \/ EditText
    \/ EditUrl
    \/ EditExtracted
    \/ SelectSummaryType
    \/ SlideLength
    \/ ClickGenerate

Spec == Init /\ [][Next]_vars

----------------------------------------------------------------------------
(* sumy_summarizer called directly, with any strategy tag *)

Tags ==
    {tag_lsa, tag_lex, tag_luhn, tag_textrank, <<>>, <<"L","S","A">>}
        \cup {method_of(SummaryTypes[i]) : i \in 1..Len(SummaryTypes)}

InitSumy ==
    /\ input_method = InputMethods[1]
    /\ pasted = <<>>
    /\ url = <<>>
    /\ summary_type = SummaryTypes[1]
    /\ length = slider_value
    /\ event = "start"
    /\ before = "start"
    /\ render = main(InputMethods[1], <<>>, <<>>, SummaryTypes[1], slider_value,
                     "start", NoFetch, NoLib, TRUE)
    /\ direct \in {[pc |-> "ready", text |-> t, summarizer_type |-> tg,
                    sentences_count |-> n, lib |-> l, result |-> <<>>] :
                       t \in Texts, tg \in Tags, n \in Lengths,
                       l \in LibOutcomes}

CallSumy ==
    /\ direct.pc = "ready"
    /\ direct' = [direct EXCEPT
                    !.pc = "done",
                    !.result = <<sumy_summarizer(direct.text, direct.summarizer_type,
                                                 direct.sentences_count, direct.lib)>>]
    /\ UNCHANGED <<input_method, pasted, url, summary_type, length, event,
                   before, render>>

NextSumy == CallSumy

SpecSumy == InitSumy /\ [][NextSumy]_vars

----------------------------------------------------------------------------
(* Properties *)

RecognizedTags == {tag_lsa, tag_lex, tag_luhn, tag_textrank}

NoSummarizerInvoked == render.sumy_calls = <<>> /\ render.abstractive_calls = <<>>

NothingGenerated ==
    /\ render.header = <<>>
    /\ render.summary = <<>>
    /\ render.stats = <<>>
    /\ render.gen_error = <<>>

\* the interactions other than the press of Generate Summary
InputEvents == {"radio", "text_area", "text_input", "extracted", "selectbox", "slider"}

\* C1: in URL mode, a run in which get_article_text raises renders an error
\* message and calls neither sumy_summarizer nor abstractive_summarizer,
\* whatever the summary type, the length and the button are.
C1_FetchFailureInvokesNoSummarizer ==
    (input_method = "URL" /\ render.fetch_raised # <<>>) =>
        /\ render.fetch_error = <<error_message(render.fetch_raised[1])>>
        /\ NoSummarizerInvoked
        /\ NothingGenerated

\* C1 witness: Generate Summary is pressed on a fetched article and the fetch
\* of that run fails.
C1_Witness ==
    /\ input_method = "URL"
    /\ event = "generate"
    /\ render.fetch_raised # <<>>
    /\ render.fetch_error # <<>>

\* C2: a run in which Generate Summary is pressed renders either the summary
\* block with its statistics and no error, or an error and no summary block;
\* never a summary header or text together with an error.
C2_NoPartialResult ==
    render.clicked =>
        \/ /\ render.header # <<>>
           /\ render.summary # <<>>
           /\ render.stats # <<>>
           /\ render.gen_error = <<>>
        \/ /\ render.gen_error # <<>>
           /\ render.header = <<>>
           /\ render.summary = <<>>
           /\ render.stats = <<>>

\* C3: while the text is empty the options and the trigger are not offered,
\* no summarizer is called, nothing of a generation is rendered, and the
\* shell is in AwaitingInput, or in ErrorDisplayed exactly when the fetch
\* failed.
C3_EmptyTextOffersNothing ==
    render.text = <<>> =>
        /\ ~render.options
        /\ ~render.clicked
        /\ NoSummarizerInvoked
        /\ NothingGenerated
        /\ shell = IF render.fetch_raised # <<>> THEN "ErrorDisplayed"
                   ELSE "AwaitingInput"

\* C3 witness: Generate Summary is pressed and the run fetches an empty
\* article body.
C3_Witness ==
    /\ event = "generate"
    /\ render.extracted = <<(<<>>)>>
    /\ render.text = <<>>
    /\ shell = "AwaitingInput"

\* C4: a call of sumy_summarizer with a strategy tag that is not one of the
\* four recognized tags raises and returns no summary; no ranking method is
\* used for it.
C4_UnknownTagFails ==
    (direct.pc = "done" /\ direct.summarizer_type \notin RecognizedTags) =>
        /\ direct.result[1].raised # <<>>
        /\ direct.result[1].value = <<>>
        /\ direct.result[1].summarizer = <<>>

\* C4 witness: the tag "lexrank" with a library that would have returned a
\* two-word summary.
C4_Witness ==
    /\ direct.pc = "done"
    /\ direct.summarizer_type = <<"l","e","x","r","a","n","k">>
    /\ direct.lib = [fail |-> "none", value |-> words(2)]
    /\ direct.result[1].raised = <<"UnboundLocalError">>

\* C5: every exception a library call raises during a run is caught in main:
\* none escapes, the error message of that exception is rendered and the
\* shell is in ErrorDisplayed.
C5_FailuresCaught ==
    /\ render.escaped = <<>>
    /\ render.fetch_raised # <<>> =>
           /\ render.fetch_error = <<error_message(render.fetch_raised[1])>>
           /\ shell = "ErrorDisplayed"
    /\ render.gen_raised # <<>> =>
           /\ render.gen_error = <<error_message(render.gen_raised[1])>>
           /\ shell = "ErrorDisplayed"

\* C5 witness: a summarizer library raises during a generation.
C5_Witness ==
    /\ event = "generate"
    /\ render.gen_raised = <<"LibraryError">>
    /\ render.gen_error = <<error_message("LibraryError")>>

\* C6: when Generate Summary is pressed on a non-empty text and the chosen
\* summarizer returns, the shell is in SummaryDisplayed: the summary block
\* and the statistics block are rendered and no error is.
C6_SuccessDisplaysSummary ==
    (render.clicked /\ render.returned # <<>>) =>
        /\ render.header # <<>>
        /\ render.summary = render.returned
        /\ render.stats # <<>>
        /\ render.gen_error = <<>>
        /\ shell = "SummaryDisplayed"

\* a / b > c / d for positive b and d
FracGreater(x, y) == x.num * y.den > y.num * x.den

\* C7: whenever statistics are rendered, the original word count o is
\* positive and the reduction is (o - s) / o * 100 for the word counts o and
\* s of the text and of the summary: 0 when s = o, 100 when s = 0, and
\* larger for every smaller s.
C7_ReductionFormula ==
    render.stats # <<>> =>
        LET o == render.stats[1].orig_words
            sw == render.stats[1].summ_words
            r == render.stats[1].ratio
        IN  /\ o = Len(word_tokenize(render.text))
            /\ sw = Len(word_tokenize(render.summary[1]))
            /\ o > 0
            /\ r.den > 0
            /\ r.num * o = (o - sw) * 100 * r.den
            /\ (sw = o) => (r.num = 0)
            /\ (sw = 0) => (r.num = 100 * r.den)
            /\ \A s2 \in 0..MaxWords :
                   (s2 < sw) => FracGreater(ratio(o, s2), r)

\* C7 witness: a two-word text with a one-word summary, reduced by 50%.
C7_Witness ==
    /\ render.stats # <<>>
    /\ render.stats[1].orig_words = 2
    /\ render.stats[1].summ_words = 1
    /\ render.stats[1].ratio.num = 50 * render.stats[1].ratio.den

\* C8: from SummaryDisplayed or ErrorDisplayed, any input action leads to
\* InputProvided and nothing of the previous generation or error is rendered.
C8_InputActionLeadsToInputProvided ==
    (before \in {"SummaryDisplayed", "ErrorDisplayed"} /\ event \in InputEvents) =>
        /\ shell = "InputProvided"
        /\ NothingGenerated
        /\ render.fetch_error = <<>>

\* C8 as amended: from SummaryDisplayed or ErrorDisplayed, any input action
\* re-runs the shell on the current input: no summarizer is called and no
\* summary, statistics or generation error is rendered, and the shell is in
\* ErrorDisplayed when the fetch of that run fails, else in InputProvided
\* when the text is non-empty, else in AwaitingInput.
C8_InputActionReevaluates ==
    (before \in {"SummaryDisplayed", "ErrorDisplayed"} /\ event \in InputEvents) =>
        /\ NothingGenerated
        /\ NoSummarizerInvoked
        /\ shell = IF render.fetch_raised # <<>> THEN "ErrorDisplayed"
                   ELSE IF render.text # <<>> THEN "InputProvided"
                   ELSE "AwaitingInput"

\* C8 witness: the length is changed while a summary is displayed.
C8_Witness ==
    /\ before = "SummaryDisplayed"
    /\ event = "slider"
    /\ shell = "InputProvided"

\* the summarizer class each extractive option names
ExpectedSummarizer(st) ==
    IF st = OptLSA THEN <<"LsaSummarizer">>
    ELSE IF st = OptLexRank THEN <<"LexRankSummarizer">>
    ELSE IF st = OptLuhn THEN <<"LuhnSummarizer">>
    ELSE <<"TextRankSummarizer">>

\* C9: for each extractive option the tag derived from its label is one
\* sumy_summarizer recognizes and selects the matching ranking method; the
\* abstractive option calls only abstractive_summarizer.
C9_OptionsSelectMatchingMethod ==
    render.clicked =>
        IF summary_type = OptBART
        THEN render.sumy_calls = <<>> /\ Len(render.abstractive_calls) = 1
        ELSE /\ render.abstractive_calls = <<>>
             /\ Len(render.sumy_calls) = 1
             /\ render.sumy_calls[1].summarizer_type \in RecognizedTags
             /\ render.sumy_calls[1].summarizer = ExpectedSummarizer(summary_type)

\* C10: the length is an integer in 1..10, and every abstractive call gets
\* max_length = 30 * length and min_length = 30, so min_length <= max_length.
C10_LengthBounds ==
    /\ length \in 1..10
    /\ \A i \in 1..Len(render.abstractive_calls) :
           LET c == render.abstractive_calls[i] IN
           /\ c.max_length = 30 * length
           /\ c.min_length = 30
           /\ c.min_length <= c.max_length

\* C10 witness: an abstractive call at length 1, where the bounds are equal.
C10_Witness ==
    /\ length = 1
    /\ Len(render.abstractive_calls) = 1
    /\ render.abstractive_calls[1].max_length = render.abstractive_calls[1].min_length

====
